---- MODULE Spec2Model ----
(***************************************************************************)
(* Model of examples/applications/rust-crash/src/main.rs: a single-threaded *)
(* TCP fixture that resolves its port from the environment, binds, and then *)
(* answers every accepted connection with a fixed 200 response, panicking   *)
(* on purpose when ENABLE_CRASH is "true" and the request buffer contains   *)
(* "GET /crash".                                                            *)
(*                                                                          *)
(* Strings are sequences: environment values are sequences of characters    *)
(* (so that str::parse::<u16> is computed digit by digit), request and      *)
(* response bytes are sequences of byte chunks (so that str::contains is a  *)
(* real substring search).                                                  *)
(***************************************************************************)
EXTENDS Integers, Sequences, FiniteSets, TLC

VARIABLES
    env,              \* the process environment: a function name -> value
    env_read,         \* the names the process has passed to env::var so far
    pc,               \* position of the main thread
    base_port,        \* main.rs:13
    instance_offset,  \* main.rs:16
    port,             \* main.rs:18
    bind_calls,       \* the ports handed to TcpListener::bind, in order (main.rs:24)
    listener,         \* "none" | "bound"
    conns,            \* the connections made to the port, in arrival order
    cur,              \* index in conns of the stream being handled (0 = none)
    buffer,           \* what stream.read put in the buffer (main.rs:33-35)
    accept_errs,      \* number of Err items yielded by l.incoming()
    stdout,           \* lines printed with println!
    stderr,           \* lines printed with eprintln! and by the panic hook
    exit_code,        \* None while the process runs, Some(status) once it has ended
    cause             \* why the process terminated

vars == << env, env_read, pc, base_port, instance_offset, port, bind_calls,
           listener, conns, cur, buffer, accept_errs, stdout, stderr, exit_code, cause >>

(***************************************************************************)
(* Bounds of the model.                                                    *)
(***************************************************************************)
MaxConns == 2
MaxAcceptErrs == 1

(***************************************************************************)
(* Program constants.                                                      *)
(***************************************************************************)
U16Max == 65535
DefaultPort == 8080
DefaultOffset == 0
BindFailExit == 1
PanicExit == 101

None == << >>
Some(v) == << v >>

(***************************************************************************)
(* str::parse::<u16>(): an optional leading "+", then one or more decimal  *)
(* digits, no other character; a value above u16::MAX is an error.         *)
(***************************************************************************)
DigitChars == << "0", "1", "2", "3", "4", "5", "6", "7", "8", "9" >>

IsDigit(c) == \E i \in 1..10 : DigitChars[i] = c

DigitVal(c) == (CHOOSE i \in 1..10 : DigitChars[i] = c) - 1

Ok(v) == [ok |-> TRUE, val |-> v]
Err == [ok |-> FALSE, val |-> 0]

RECURSIVE ParseDigits(_, _)
ParseDigits(s, acc) ==
    IF s = << >> THEN Ok(acc)
    ELSE IF ~IsDigit(Head(s)) THEN Err
    ELSE LET next == acc * 10 + DigitVal(Head(s))
         IN  IF next > U16Max THEN Err ELSE ParseDigits(Tail(s), next)

ParseU16(s) ==
    LET digits == IF s /= << >> /\ Head(s) = "+" THEN Tail(s) ELSE s
    IN  IF digits = << >> THEN Err ELSE ParseDigits(digits, 0)

UnwrapOr(r, d) == IF r.ok THEN r.val ELSE d

(***************************************************************************)
(* env::var(name): Err when the variable is not set.                       *)
(***************************************************************************)
EnvVar(name) == IF name \in DOMAIN env THEN Ok(env[name]) ELSE Err

\* the string "8080" / "0" used when the variable is absent (main.rs:12, 15)
DefaultPortStr == << "8", "0", "8", "0" >>
DefaultOffsetStr == << "0" >>

\* the literal "true" of main.rs:43, and String::default()
TrueStr == << "t", "r", "u", "e" >>
EmptyStr == << >>

PortValues ==
    { << "9", "0", "0", "0" >>, << "6", "5", "5", "3", "5" >>,
      << "7", "0", "0", "0", "0" >>, << "a", "b", "c" >> }

OffsetValues == { << "2" >>, << "x" >>, << "+", "1" >> }

CrashValues == { TrueStr, << "T", "R", "U", "E" >> }

EnvNames == { "PORT", "NODE_APP_INSTANCE", "ENABLE_CRASH" }

EnvValues(name) ==
    CASE name = "PORT" -> PortValues
      [] name = "NODE_APP_INSTANCE" -> OffsetValues
      [] name = "ENABLE_CRASH" -> CrashValues

Environments ==
    UNION { { e \in [D -> PortValues \cup OffsetValues \cup CrashValues] :
                \A n \in D : e[n] \in EnvValues(n) } : D \in SUBSET EnvNames }

(***************************************************************************)
(* Bytes on the wire, as sequences of chunks.                              *)
(***************************************************************************)
CRLF == "\r\n\r\n"
BadByte == "0xFF"
Replacement == "U+FFFD"

ReqNone == << >>   \* the client shuts down its sending side without sending: read returns Ok(0)
ReqRoot == << "GET", " ", "/", " HTTP/1.1", CRLF >>
ReqCrash == << "GET", " ", "/crash", " HTTP/1.1", CRLF >>
ReqCrashX == << "GET", " ", "/crash", "x", " HTTP/1.1", CRLF >>
ReqBodyCrash == << "POST", " ", "/", " HTTP/1.1", CRLF, BadByte, "GET", " ", "/crash" >>

Requests == { ReqNone, ReqRoot, ReqCrash, ReqCrashX, ReqBodyCrash }

\* the pattern "GET /crash" of main.rs:44
Needle == << "GET", " ", "/crash" >>

\* String::from_utf8_lossy: invalid bytes become U+FFFD, the rest is kept
FromUtf8Lossy(bytes) ==
    [i \in DOMAIN bytes |-> IF bytes[i] = BadByte THEN Replacement ELSE bytes[i]]

\* str::contains: pat occurs in s as a contiguous substring
Contains(s, pat) ==
    \E i \in 0..(Len(s) - Len(pat)) : SubSeq(s, i + 1, i + Len(pat)) = pat

\* Display of a u16: its decimal digits
RECURSIVE ToDecimal(_)
ToDecimal(n) ==
    IF n < 10 THEN << DigitChars[n + 1] >>
    ELSE Append(ToDecimal(n \div 10), DigitChars[(n % 10) + 1])

StatusLine == "HTTP/1.1 200 OK"

\* format!("HTTP/1.1 200 OK\r\n\r\nHello from Rust instance {}!", instance_offset)
Response(k) ==
    << StatusLine, CRLF, "Hello from Rust instance " >> \o ToDecimal(k) \o << "!" >>

(***************************************************************************)
(* Initial state: the process has just been spawned.                       *)
(***************************************************************************)
Init ==
    /\ env \in Environments
    /\ env_read = { }
    /\ pc = "resolve"
    /\ base_port = 0
    /\ instance_offset = 0
    /\ port = 0
    /\ bind_calls = << >>
    /\ listener = "none"
    /\ conns = << >>
    /\ cur = 0
    /\ buffer = << >>
    /\ accept_errs = 0
    /\ stdout = << >>
    /\ stderr = << >>
    /\ exit_code = None
    /\ cause = "none"

Alive == exit_code = None

\* the process ends with the given status; nothing runs afterwards
Terminate(code, why, line) ==
    /\ pc' = "exited"
    /\ exit_code' = Some(code)
    /\ cause' = why
    /\ stderr' = Append(stderr, line)

\* an unwinding panic of the main thread: message on stderr, status 101
PanicWith(why) == Terminate(PanicExit, why, "panicked")

\* u16 + u16 without overflow checks
AddU16Wrapping(a, b) == (a + b) % (U16Max + 1)

(***************************************************************************)
(* main.rs:12-20: resolve the port from PORT and NODE_APP_INSTANCE.        *)
(***************************************************************************)
ResolveConfig ==
    /\ pc = "resolve"
    /\ LET b == UnwrapOr(ParseU16(UnwrapOr(EnvVar("PORT"), DefaultPortStr)), DefaultPort)
           k == UnwrapOr(ParseU16(UnwrapOr(EnvVar("NODE_APP_INSTANCE"), DefaultOffsetStr)),
                         DefaultOffset)
       IN  /\ env_read' = env_read \cup { "PORT", "NODE_APP_INSTANCE" }
           /\ base_port' = b
           /\ instance_offset' = k
           /\ \/ \* the u16 sum, wrapping where overflow is not checked (release profile)
                 /\ port' = AddU16Wrapping(b, k)
                 /\ stdout' = Append(stdout, "starting")
                 /\ pc' = "bind"
                 /\ UNCHANGED << stderr, exit_code, cause >>
              \/ \* "attempt to add with overflow" where it is checked (debug profile)
                 /\ b + k > U16Max
                 /\ PanicWith("overflow")
                 /\ UNCHANGED << port, stdout >>
    /\ UNCHANGED << env, bind_calls, listener, conns, cur, buffer, accept_errs >>

(***************************************************************************)
(* main.rs:22-28 and 57-60: one TcpListener::bind; the outcome is the      *)
(* operating system's.                                                     *)
(***************************************************************************)
\* a successful bind that goes on to serve without printing the PID line
BindOkSilent ==
    /\ pc = "bind"
    /\ bind_calls' = Append(bind_calls, port)
    /\ listener' = "bound"
    /\ pc' = "accept"
    /\ UNCHANGED << env, env_read, base_port, instance_offset, port, conns, cur,
                    buffer, accept_errs, stdout, stderr, exit_code, cause >>

BindOk ==
    /\ pc = "bind"
    /\ bind_calls' = Append(bind_calls, port)
    /\ listener' = "bound"
    /\ stdout' = Append(stdout, "pid")
    /\ pc' = "accept"
    /\ UNCHANGED << env, env_read, base_port, instance_offset, port, conns, cur,
                    buffer, accept_errs, stderr, exit_code, cause >>

\* a bind failure that is logged and tried again instead of ending the process
BindErrRetry ==
    /\ pc = "bind"
    /\ Len(bind_calls) < 2
    /\ bind_calls' = Append(bind_calls, port)
    /\ stderr' = Append(stderr, "Failed to bind port")
    /\ UNCHANGED << env, env_read, pc, base_port, instance_offset, port, listener, conns, cur,
                    buffer, accept_errs, stdout, exit_code, cause >>

BindErr ==
    /\ pc = "bind"
    /\ bind_calls' = Append(bind_calls, port)
    /\ Terminate(BindFailExit, "bind_failure", "Failed to bind port")
    /\ UNCHANGED << env, env_read, base_port, instance_offset, port, listener,
                    conns, cur, buffer, accept_errs, stdout >>

(***************************************************************************)
(* The clients: they connect to the bound port, send a request (or close   *)
(* without sending), and may reset the connection at any time.  req is     *)
(* what the client has sent and the connection still holds: a reset or the *)
(* server's close discards it.                                             *)
(***************************************************************************)
\* the peer has reset the connection, before or after sending its request
PeerReset(c) == c.cstate \in { "reset_unsent", "reset_sent" }

NewConn == [cstate |-> "open", req |-> << >>, sstate |-> "queued", resp |-> << >>]

ServerUnchanged ==
    UNCHANGED << env, env_read, pc, base_port, instance_offset, port, bind_calls,
                 listener, cur, buffer, accept_errs, stdout, stderr, exit_code, cause >>

Connect ==
    /\ Alive
    /\ listener = "bound"
    /\ Len(conns) < MaxConns
    /\ conns' = Append(conns, NewConn)
    /\ ServerUnchanged

Send(i, r) ==
    /\ Alive
    /\ i \in DOMAIN conns
    /\ conns[i].cstate = "open"
    /\ conns[i].sstate /= "dropped"
    /\ conns' = [conns EXCEPT ![i].cstate = "sent", ![i].req = r]
    /\ ServerUnchanged

Reset(i) ==
    /\ Alive
    /\ i \in DOMAIN conns
    /\ conns[i].cstate \in { "open", "sent" }
    /\ conns[i].sstate /= "dropped"
    /\ conns' = [conns EXCEPT
                   ![i].cstate = IF conns[i].cstate = "open" THEN "reset_unsent"
                                 ELSE "reset_sent",
                   ![i].req = << >>]
    /\ ServerUnchanged

(***************************************************************************)
(* main.rs:30-32, 51-53: l.incoming() blocks until a connection is queued  *)
(* and yields it, or yields an accept error.                               *)
(***************************************************************************)
Queued == { i \in DOMAIN conns : conns[i].sstate = "queued" }

NextQueued == CHOOSE i \in Queued : \A j \in Queued : i <= j

\* an accept loop that takes the next connection while a handler still waits in read
AcceptOkWhileReading ==
    /\ pc \in { "accept", "read" }
    /\ Queued /= { }
    /\ cur' = NextQueued
    /\ conns' = [conns EXCEPT ![NextQueued].sstate = "handling"]
    /\ buffer' = << >>
    /\ pc' = "read"
    /\ UNCHANGED << env, env_read, base_port, instance_offset, port, bind_calls, listener,
                    accept_errs, stdout, stderr, exit_code, cause >>

AcceptOk ==
    /\ pc = "accept"
    /\ Queued /= { }
    /\ cur' = NextQueued
    /\ conns' = [conns EXCEPT ![NextQueued].sstate = "handling"]
    /\ buffer' = << >>
    /\ pc' = "read"
    /\ UNCHANGED << env, env_read, base_port, instance_offset, port, bind_calls,
                    listener, accept_errs, stdout, stderr, exit_code, cause >>

\* an accept error that is unwrapped like the read and write results
AcceptErrFatal ==
    /\ pc = "accept"
    /\ accept_errs < MaxAcceptErrs
    /\ accept_errs' = accept_errs + 1
    /\ PanicWith("io_unwrap")
    /\ UNCHANGED << env, env_read, base_port, instance_offset, port, bind_calls,
                    listener, conns, cur, buffer, stdout >>

AcceptErr ==
    /\ pc = "accept"
    /\ accept_errs < MaxAcceptErrs
    /\ accept_errs' = accept_errs + 1
    /\ stderr' = Append(stderr, "Connection failed")
    /\ UNCHANGED << env, env_read, pc, base_port, instance_offset, port,
                    bind_calls, listener, conns, cur, buffer, stdout, exit_code, cause >>

(***************************************************************************)
(* main.rs:33-35: stream.read(&mut buffer).unwrap()                        *)
(* Blocks while the client has sent nothing; returns some non-empty prefix *)
(* of what was sent (Ok(0) at end of stream); Err when the peer has reset, *)
(* and unwrap() then panics.                                               *)
(***************************************************************************)
ReadLens(r) == IF r = << >> THEN { 0 } ELSE 1..Len(r)

ReadOk ==
    /\ pc = "read"
    /\ conns[cur].cstate = "sent"
    /\ \E n \in ReadLens(conns[cur].req) : buffer' = SubSeq(conns[cur].req, 1, n)
    /\ pc' = "write"
    /\ UNCHANGED << env, env_read, base_port, instance_offset, port, bind_calls,
                    listener, conns, cur, accept_errs, stdout, stderr, exit_code, cause >>

ReadErr ==
    /\ pc = "read"
    /\ PeerReset(conns[cur])
    /\ PanicWith("io_unwrap")
    /\ UNCHANGED << env, env_read, base_port, instance_offset, port, bind_calls,
                    listener, conns, cur, buffer, accept_errs, stdout >>

(***************************************************************************)
(* main.rs:38-39: stream.write(response.as_bytes()).unwrap()               *)
(***************************************************************************)
WriteOk ==
    /\ pc = "write"
    /\ ~PeerReset(conns[cur])
    /\ conns' = [conns EXCEPT ![cur].resp = Response(instance_offset)]
    /\ pc' = "flush"
    /\ UNCHANGED << env, env_read, base_port, instance_offset, port, bind_calls,
                    listener, cur, buffer, accept_errs, stdout, stderr, exit_code, cause >>

WriteErr ==
    /\ pc = "write"
    /\ PeerReset(conns[cur])
    /\ PanicWith("io_unwrap")
    /\ UNCHANGED << env, env_read, base_port, instance_offset, port, bind_calls,
                    listener, conns, cur, buffer, accept_errs, stdout >>

(***************************************************************************)
(* main.rs:40: stream.flush().unwrap(); TcpStream::flush does nothing and  *)
(* returns Ok(()).                                                         *)
(***************************************************************************)
Flush ==
    /\ pc = "flush"
    /\ conns' = [conns EXCEPT ![cur].sstate = "answered"]
    /\ pc' = "policy"
    /\ UNCHANGED << env, env_read, base_port, instance_offset, port, bind_calls,
                    listener, cur, buffer, accept_errs, stdout, stderr, exit_code, cause >>

(***************************************************************************)
(* main.rs:35, 42-50: the crash decision, taken on the whole buffer; the   *)
(* switch is read with env::var("ENABLE_CRASH") here, for every request.   *)
(***************************************************************************)
CrashEnabled == UnwrapOr(EnvVar("ENABLE_CRASH"), EmptyStr) = TrueStr

CrashRequested(buf) == Contains(FromUtf8Lossy(buf), Needle)

PolicyCrash ==
    /\ pc = "policy"
    /\ CrashEnabled
    /\ CrashRequested(buffer)
    /\ env_read' = env_read \cup { "ENABLE_CRASH" }
    /\ pc' = "announce"
    /\ UNCHANGED << env, base_port, instance_offset, port, bind_calls,
                    listener, conns, cur, buffer, accept_errs, stdout, stderr, exit_code,
                    cause >>

\* a handler that disarms the switch (env::remove_var) once a request has passed
PolicyContinueClearsSwitch ==
    /\ pc = "policy"
    /\ ~(CrashEnabled /\ CrashRequested(buffer))
    /\ env_read' = env_read \cup { "ENABLE_CRASH" }
    /\ env' = [n \in DOMAIN env \ { "ENABLE_CRASH" } |-> env[n]]
    /\ conns' = [conns EXCEPT ![cur].sstate = "dropped", ![cur].cstate = "closed",
                              ![cur].req = << >>]
    /\ cur' = 0
    /\ buffer' = << >>
    /\ pc' = "accept"
    /\ UNCHANGED << base_port, instance_offset, port, bind_calls,
                    listener, accept_errs, stdout, stderr, exit_code, cause >>

\* no crash: the stream goes out of scope (is closed) and the loop iterates
PolicyContinue ==
    /\ pc = "policy"
    /\ ~(CrashEnabled /\ CrashRequested(buffer))
    /\ env_read' = env_read \cup { "ENABLE_CRASH" }
    /\ conns' = [conns EXCEPT ![cur].sstate = "dropped", ![cur].cstate = "closed",
                              ![cur].req = << >>]
    /\ cur' = 0
    /\ buffer' = << >>
    /\ pc' = "accept"
    /\ UNCHANGED << env, base_port, instance_offset, port, bind_calls,
                    listener, accept_errs, stdout, stderr, exit_code, cause >>

\* main.rs:45
Announce ==
    /\ pc = "announce"
    /\ stdout' = Append(stdout, "Received CRASH command")
    /\ pc' = "sleep"
    /\ UNCHANGED << env, env_read, base_port, instance_offset, port, bind_calls,
                    listener, conns, cur, buffer, accept_errs, stderr, exit_code, cause >>

\* main.rs:46
Sleep ==
    /\ pc = "sleep"
    /\ pc' = "panic"
    /\ UNCHANGED << env, env_read, base_port, instance_offset, port, bind_calls,
                    listener, conns, cur, buffer, accept_errs, stdout, stderr, exit_code,
                    cause >>

\* a crash path that ends in an orderly exit(0)
PanicGraceful ==
    /\ pc = "panic"
    /\ pc' = "exited"
    /\ exit_code' = Some(0)
    /\ cause' = "deliberate_crash"
    /\ UNCHANGED << env, env_read, base_port, instance_offset, port, bind_calls, listener, conns,
                    cur, buffer, accept_errs, stdout, stderr >>

\* main.rs:47
Panic ==
    /\ pc = "panic"
    /\ PanicWith("deliberate_crash")
    /\ UNCHANGED << env, env_read, base_port, instance_offset, port, bind_calls,
                    listener, conns, cur, buffer, accept_errs, stdout >>

ClientStep ==
    \/ Connect
    \/ \E i \in 1..MaxConns : \E r \in Requests : Send(i, r)
    \/ \E i \in 1..MaxConns : Reset(i)

ServerStep ==
    \/ ResolveConfig
    \/ BindOk
    \/ BindErr
    \/ AcceptOk
    \/ AcceptErr
    \/ ReadOk
    \/ ReadErr
    \/ WriteOk
    \/ WriteErr
    \/ Flush
    \/ PolicyCrash
    \/ PolicyContinue
    \/ Announce
    \/ Sleep
    \/ Panic

Next == ClientStep \/ ServerStep

Spec == Init /\ [][Next]_vars

(***************************************************************************)
(* The main thread runs whenever it is not blocked in bind, accept, read   *)
(* or write: weak fairness of its steps.  Nothing is assumed of clients.   *)
(***************************************************************************)
FairSpec == Spec /\ WF_vars(ServerStep)

(***************************************************************************)
(* The same, with clients that send a request on every connection they     *)
(* hold open.                                                              *)
(***************************************************************************)
LiveSpec ==
    /\ Spec
    /\ WF_vars(ServerStep)
    /\ \A i \in 1..MaxConns : WF_vars(\E r \in Requests : Send(i, r))

(***************************************************************************)
(* Vocabulary of the properties.                                           *)
(***************************************************************************)
Terminated == exit_code /= None

StartsWith(s, pre) == Len(s) >= Len(pre) /\ SubSeq(s, 1, Len(pre)) = pre

\* the connection has been sent a response beginning with the 200 status line
Answered(i) == StartsWith(conns[i].resp, << StatusLine >>)

Printed(stream, line) == \E i \in DOMAIN stream : stream[i] = line

\* the chunks of a request before its first line terminator
RECURSIVE FirstLine(_)
FirstLine(r) ==
    IF r = << >> \/ Head(r) = CRLF THEN << >> ELSE << Head(r) >> \o FirstLine(Tail(r))

\* the first line is `GET /crash`, alone or followed by the protocol version
NamesCrashPath(r) ==
    LET l == FirstLine(r)
    IN  \/ l = << "GET", " ", "/crash" >>
        \/ l = << "GET", " ", "/crash", " HTTP/1.1" >>

CrashPath == { "announce", "sleep", "panic" }

(***************************************************************************)
(* C1: a read or write failure on an accepted connection never terminates  *)
(* the process: once the listener is bound, the process terminates only    *)
(* through the deliberate crash.                                           *)
(***************************************************************************)
C1_OnlyDeliberateCrashTerminates ==
    (Terminated /\ listener = "bound") => cause = "deliberate_crash"

(***************************************************************************)
(* C2: with ENABLE_CRASH = "true", a request leads to the deliberate crash *)
(* only if its first line names exactly the path /crash (read off the      *)
(* request as the client sent it, while the connection still holds it).    *)
(***************************************************************************)
C2_CrashOnlyOnExactPath ==
    (pc \in CrashPath /\ conns[cur].cstate = "sent") => NamesCrashPath(conns[cur].req)

(***************************************************************************)
(* C3: with ENABLE_CRASH unset or different from "true", the process is    *)
(* alive in every state after the listener is bound.                       *)
(***************************************************************************)
C3_AliveWhenCrashDisabled ==
    (~CrashEnabled /\ listener = "bound") => Alive

(***************************************************************************)
(* C4: whenever the process has terminated while serving, the connection   *)
(* it was handling has been written and flushed its 200 response, and so   *)
(* has every connection accepted before it.                                *)
(***************************************************************************)
C4_ResponseBeforeTermination ==
    (Terminated /\ cur /= 0) =>
        /\ conns[cur].sstate = "answered"
        /\ \A i \in 1..cur : Answered(i)

(***************************************************************************)
(* C5: the port handed to bind is BasePort + InstanceOffset, also when the *)
(* sum exceeds 65535.                                                      *)
(***************************************************************************)
C5_EffectivePortIsSum ==
    \A i \in DOMAIN bind_calls : bind_calls[i] = base_port + instance_offset

(***************************************************************************)
(* C6: configuration resolution never fails: the process reaches the bind  *)
(* step whatever PORT and NODE_APP_INSTANCE hold, with base port 8080 and  *)
(* offset 0 for a missing or unparseable value.                            *)
(***************************************************************************)
C6_ResolverNeverFails ==
    /\ Terminated => bind_calls /= << >>
    /\ pc \notin { "resolve", "exited" } =>
          /\ ~ParseU16(UnwrapOr(EnvVar("PORT"), << >>)).ok => base_port = DefaultPort
          /\ ~ParseU16(UnwrapOr(EnvVar("NODE_APP_INSTANCE"), << >>)).ok =>
                instance_offset = DefaultOffset
          /\ DOMAIN env = { } => port = DefaultPort


(***************************************************************************)
(* C7: a bind failure is logged on stderr and ends the process at once     *)
(* with a non-zero status: bind is called exactly once, on the resolved    *)
(* port, and no connection is ever accepted or answered.                   *)
(***************************************************************************)
BindFailed == Printed(stderr, "Failed to bind port")

C7_BindFailureIsFatal ==
    /\ Len(bind_calls) <= 1
    /\ \A i \in DOMAIN bind_calls : bind_calls[i] = port
    /\ BindFailed =>
          /\ pc = "exited"
          /\ exit_code = Some(BindFailExit)
          /\ exit_code /= Some(0)
          /\ Len(bind_calls) = 1
          /\ listener = "none"
          /\ conns = << >>
          /\ ~Printed(stdout, "pid")

C7_Witness == BindFailed /\ Terminated /\ bind_calls = << port >>

(***************************************************************************)
(* C8 as stated: a handler waiting in read does not block acceptance, so a *)
(* connection whose client has sent its request is eventually answered     *)
(* (unless that client resets it or the process terminates).               *)
(***************************************************************************)
C8_HandlerDoesNotBlockAccept ==
    \A j \in 1..MaxConns :
        (j \in DOMAIN conns /\ conns[j].cstate = "sent")
            ~> (Terminated \/ (j \in DOMAIN conns /\ (Answered(j) \/ PeerReset(conns[j]))))

(***************************************************************************)
(* C8 as amended: connections are handled one at a time, in arrival order, *)
(* on the accept loop's own thread: a connection is accepted or answered   *)
(* only when the handler of every earlier connection has returned, and     *)
(* while a handler waits in read nothing else is accepted.                 *)
(***************************************************************************)
C8_ConnectionsHandledSequentially ==
    /\ \A i, j \in DOMAIN conns :
          (i < j /\ conns[j].sstate /= "queued") => conns[i].sstate = "dropped"
    /\ \A j \in DOMAIN conns : (conns[j].resp /= << >>) => conns[j].sstate /= "queued"
    /\ pc \in { "read", "write", "flush", "policy" } \cup CrashPath =>
          /\ cur \in DOMAIN conns
          /\ \A j \in DOMAIN conns : j > cur => conns[j].sstate = "queued"

C8_Witness ==
    /\ pc = "read"
    /\ conns[cur].cstate = "open"
    /\ \E j \in DOMAIN conns :
          j > cur /\ conns[j].cstate = "sent" /\ conns[j].sstate = "queued"

(***************************************************************************)
(* C9: on the crash path the order is: response written and flushed, crash *)
(* line printed on stdout, delay, abnormal termination; the path never     *)
(* ends in exit status 0 and never leaves the process running (each of its *)
(* positions has an enabled step, and its steps only lead on to the panic).*)
(***************************************************************************)
CrashLine == "Received CRASH command"

C9_CrashStates ==
    /\ (pc \in CrashPath \/ cause = "deliberate_crash") =>
          /\ conns[cur].sstate = "answered"
          /\ Answered(cur)
    /\ pc = "announce" => ~Printed(stdout, CrashLine)
    /\ (pc \in { "sleep", "panic" } \/ cause = "deliberate_crash") =>
          stdout[Len(stdout)] = CrashLine
    /\ cause = "deliberate_crash" =>
          /\ pc = "exited"
          /\ exit_code = Some(PanicExit)
          /\ exit_code /= Some(0)
    \* the main thread is never blocked on the crash path: its next step is enabled
    /\ pc \in CrashPath => ENABLED (Announce \/ Sleep \/ Panic)

C9_CrashSteps ==
    /\ (pc \in CrashPath /\ pc' /= pc) =>
          << pc, pc' >> \in { << "announce", "sleep" >>, << "sleep", "panic" >>,
                              << "panic", "exited" >> }
    /\ (pc' = "announce" /\ pc /= "announce") => pc = "policy"
    /\ (cause' = "deliberate_crash" /\ cause /= "deliberate_crash") => pc = "panic"

C9_CrashOrder ==
    /\ []C9_CrashStates
    /\ [][C9_CrashSteps]_vars

C9_Witness ==
    /\ cause = "deliberate_crash"
    /\ exit_code = Some(PanicExit)
    /\ Answered(cur)
    /\ Printed(stdout, CrashLine)

(***************************************************************************)
(* C10: while no request makes the crash policy terminate the process,     *)
(* every connection that arrives is eventually accepted and answered with  *)
(* the 200 response (unless its own client resets it), given that every    *)
(* client sends its request.                                               *)
(***************************************************************************)
C10_EveryConnectionAnswered ==
    \A j \in 1..MaxConns :
        (j \in DOMAIN conns)
            ~> \/ j \in DOMAIN conns /\ (Answered(j) \/ PeerReset(conns[j]))
               \/ cause = "deliberate_crash"
               \/ \E i \in DOMAIN conns : conns[i].cstate = "reset_unsent"

(***************************************************************************)
(* C11 as stated: the crash switch is read from the environment at         *)
(* startup: once the listener is bound, ENABLE_CRASH has been read.        *)
(***************************************************************************)
C11_SwitchReadAtStartup ==
    listener = "bound" => "ENABLE_CRASH" \in env_read

(***************************************************************************)
(* C11 as amended: the switch is not read at startup but each time a       *)
(* request's crash decision is taken; the process never changes its        *)
(* environment, so the value read is the one the switch had at startup and *)
(* every decision is the one that value dictates.                          *)
(***************************************************************************)
SwitchIsTrue == "ENABLE_CRASH" \in DOMAIN env /\ env["ENABLE_CRASH"] = TrueStr

C11_Steps ==
    /\ env' = env
    /\ ("ENABLE_CRASH" \in env_read' /\ "ENABLE_CRASH" \notin env_read) => pc = "policy"
    /\ (pc = "policy" /\ pc' /= "policy") =>
          /\ "ENABLE_CRASH" \in env_read'
          /\ (pc' = "announce") <=> (SwitchIsTrue /\ CrashRequested(buffer))
          /\ (pc' = "accept") <=> ~(SwitchIsTrue /\ CrashRequested(buffer))

C11_CrashSwitchFixed ==
    /\ [](pc \in { "resolve", "bind" } => "ENABLE_CRASH" \notin env_read)
    /\ [][C11_Steps]_vars

\* a second request takes the crash path after a first one was let through
C11_Witness ==
    /\ pc = "announce"
    /\ cur = 2
    /\ conns[1].sstate = "dropped"
    /\ "ENABLE_CRASH" \in env_read

(***************************************************************************)
(* C12: the readiness line with the PID is printed if and only if the bind *)
(* succeeded, exactly once, and before any connection is accepted or       *)
(* answered; after a bind failure it is never printed.                     *)
(***************************************************************************)
ReadinessLine == "pid"

Count(stream, line) == Cardinality({ i \in DOMAIN stream : stream[i] = line })

C12_ReadinessLine ==
    /\ Count(stdout, ReadinessLine) = IF listener = "bound" THEN 1 ELSE 0
    /\ listener = "bound" <=> (bind_calls /= << >> /\ ~BindFailed)
    /\ BindFailed => Count(stdout, ReadinessLine) = 0
    /\ (cur /= 0 \/ \E j \in DOMAIN conns :
                       conns[j].sstate /= "queued" \/ conns[j].resp /= << >>)
          => Printed(stdout, ReadinessLine)

C12_Witness ==
    /\ Count(stdout, ReadinessLine) = 1
    /\ \E j \in DOMAIN conns : Answered(j)

(***************************************************************************)
(* C13: every response names the instance index k resolved at startup, and *)
(* the listener that sent it is on BasePort + k.                           *)
(***************************************************************************)
Greeting == "Hello from Rust instance "

\* the instance index a response body reads as: the digits between the greeting and "!"
InstanceNamed(resp) == ParseU16(SubSeq(resp, 4, Len(resp) - 1))

NamesInstance(resp, k) ==
    /\ StartsWith(resp, << StatusLine, CRLF, Greeting >>)
    /\ resp[Len(resp)] = "!"
    /\ InstanceNamed(resp) = Ok(k)

C13_ResponsesNameBoundInstance ==
    \A j \in DOMAIN conns :
        conns[j].resp /= << >> =>
            /\ NamesInstance(conns[j].resp, instance_offset)
            /\ bind_calls = << base_port + instance_offset >>

(***************************************************************************)
(* C14: when l.incoming() yields an error, the error is logged on stderr,  *)
(* no response is written, the crash switch is not read, the process keeps *)
(* running and the loop goes on to the next connection.                    *)
(***************************************************************************)
AcceptErrorLine == "Connection failed"

C14_Steps ==
    accept_errs' /= accept_errs =>
        /\ accept_errs' = accept_errs + 1
        /\ stderr' = Append(stderr, AcceptErrorLine)
        /\ stdout' = stdout
        /\ conns' = conns
        /\ cur = 0 /\ cur' = 0
        /\ env_read' = env_read
        /\ pc = "accept" /\ pc' = "accept"
        /\ exit_code' = None

C14_States ==
    /\ Count(stderr, AcceptErrorLine) = accept_errs
    /\ (accept_errs > 0 /\ pc = "accept" /\ Queued /= { }) => ENABLED AcceptOk

C14_AcceptErrorSkipped ==
    /\ []C14_States
    /\ [][C14_Steps]_vars

C14_Witness ==
    /\ accept_errs > 0
    /\ Printed(stderr, AcceptErrorLine)
    /\ Alive
    /\ \E j \in DOMAIN conns : Answered(j)

====
